---- MODULE Spec2Model ----
(***************************************************************************)
(* Model of weekend-cp-solver.py: a single-shot batch run that reads a     *)
(* sign-up table, classifies its columns, plans the per-engineer load,     *)
(* builds a CP model, solves it and decodes the assignment.                *)
(*                                                                         *)
(* Python indices are 0-based; TLA+ sequences are 1-based.  Every slot,    *)
(* column and variable index below is the Python (0-based) value and a     *)
(* sequence s is read at Python index i as s[i + 1].                       *)
(***************************************************************************)
EXTENDS Integers, Sequences, FiniteSets, TLC

VARIABLES header, rows, pc, counts, all_shifts, max_shifts_per_engineer,
          empty_shift_count, availables, preferences, model, status,
          solution, objective, truncated_emails_assigned_slots,
          transformed_data, exit_code, output, error

vars == <<header, rows, pc, counts, all_shifts, max_shifts_per_engineer,
          empty_shift_count, availables, preferences, model, status,
          solution, objective, truncated_emails_assigned_slots,
          transformed_data, exit_code, output, error>>

-----------------------------------------------------------------------------
(* Program constants *)

PREFERRED_WEIGHT == 10
AVAILABLE_WEIGHT == 1
UNAVAILABLE_SCORE == 0 - 100

\* An e-mail address is modelled by the dot-separated parts of its local
\* part, each part a sequence of characters.
DUMMY_EMAIL == << <<"?">> >>

-----------------------------------------------------------------------------
(* Bounds of the explored inputs *)

MaxCols == 2
MaxRows == 3

-----------------------------------------------------------------------------
(* Generic helpers *)

Range(s) == {s[i] : i \in DOMAIN s}

RECURSIVE SeqsUpTo(_, _)
\* all sequences over S of length at most n
SeqsUpTo(S, n) ==
    IF n = 0 THEN {<<>>}
    ELSE LET shorter == SeqsUpTo(S, n - 1)
         IN  shorter \cup {Append(s, x) : s \in {t \in shorter : Len(t) = n - 1}, x \in S}

\* Python range(a, b, step) as a sequence
RECURSIVE PyRange(_, _, _)
PyRange(a, b, step) == IF a >= b THEN <<>> ELSE <<a>> \o PyRange(a + step, b, step)

\* An insertion-ordered Python dict: keys in insertion order and the mapping
EmptyDict == [keys |-> <<>>, val |-> <<>>]

HasKey(d, k) == k \in Range(d.keys)

\* d[k] = v  (an existing key keeps its position)
DictSet(d, k, v) ==
    [keys |-> IF HasKey(d, k) THEN d.keys ELSE Append(d.keys, k),
     val  |-> [x \in Range(d.keys) \cup {k} |-> IF x = k THEN v ELSE d.val[x]]]

\* d.get(k, [])
DictGet(d, k) == IF HasKey(d, k) THEN d.val[k] ELSE <<>>

\* d.setdefault(k, []).append(x)
DictAppend(d, k, x) == DictSet(d, k, Append(DictGet(d, k), x))

-----------------------------------------------------------------------------
(* Inputs *)

\* A column name is modelled by the set of keywords it contains.
WeekendName == {"Weekend"}
HolidayName == {"Holiday"}
SpecialName == {"Special", "Holiday"}
ReservedName == {}

SlotNames == {WeekendName, HolidayName, SpecialName}

\* Participant identifiers by row position; the first and the third share
\* first name and last initial.
Emails == << << <<"a","l">>, <<"b","o">> >>,
             << <<"c","y">>, <<"d","i">> >>,
             << <<"a","l">>, <<"b","y">> >>,
             << <<"e","d">>, <<"f","a">> >>,
             << <<"g","o">>, <<"h","u">> >> >>

RowPatterns == {"none", "allMeh", "evenPreferred", "oddMeh"}

\* the cell a row of the given pattern holds in slot column `slot`
Cell(pattern, slot) ==
    CASE pattern = "none"          -> ""
      [] pattern = "allMeh"        -> "Meh"
      [] pattern = "evenPreferred" -> IF slot % 2 = 0 THEN "Preferred" ELSE ""
      [] pattern = "oddMeh"        -> IF slot % 2 = 1 THEN "Meh" ELSE "No"

\* Scenario A of the specification (4 Weekend slots), a 4-slot Holiday block
\* and a catalog of total occupancy 7 (Scenario C)
ScenarioHeaders ==
    {<<WeekendName, WeekendName, WeekendName, WeekendName>>,
     <<HolidayName, HolidayName, HolidayName, HolidayName>>,
     <<WeekendName, SpecialName, SpecialName, SpecialName>>}

Headers ==
    {<<ReservedName, ReservedName>> \o h :
        h \in SeqsUpTo(SlotNames, MaxCols) \cup ScenarioHeaders}

RowsFor(h) ==
    {[i \in 1..Len(p) |->
        [email |-> Emails[i],
         cells |-> [c \in 1..(Len(h) - 2) |-> Cell(p[i], c - 1)]]] :
     p \in SeqsUpTo(RowPatterns, MaxRows)}

-----------------------------------------------------------------------------
(* count_shift_types *)

RECURSIVE CountLoop(_, _, _)
CountLoop(h, i, acc) ==
    IF i >= Len(h) THEN acc
    ELSE LET column_name == h[i + 1]
         IN  CountLoop(h, i + 1,
               IF "Weekend" \in column_name
               THEN [acc EXCEPT !.weekend_count = @ + 1, !.last_weekend_index = i]
               ELSE IF "Special" \in column_name
               THEN [acc EXCEPT !.special_holiday_count = @ + 1,
                                !.first_special_index = IF @ = 0 THEN i ELSE @]
               ELSE IF "Holiday" \in column_name
               THEN [acc EXCEPT !.holiday_count = @ + 1,
                                !.first_holiday_index = IF @ = 0 THEN i ELSE @]
               ELSE acc)

CountInit == [weekend_count |-> 0, holiday_count |-> 0, special_holiday_count |-> 0,
              last_weekend_index |-> 0 - 1, first_holiday_index |-> 0,
              first_special_index |-> 0]

HolidayBeforeWeekend(c) ==
    c.holiday_count > 0 /\ c.first_holiday_index < c.last_weekend_index

SpecialBeforeWeekend(c) ==
    c.special_holiday_count > 0 /\ c.first_special_index < c.last_weekend_index

OrderingError(c) == HolidayBeforeWeekend(c) \/ SpecialBeforeWeekend(c)

-----------------------------------------------------------------------------
(* collect_availability *)

RECURSIVE CollectColumns(_, _, _, _)
\* the inner loop over the columns of one row; d = [av, pr]
CollectColumns(row, column, ncols, d) ==
    IF column >= ncols THEN d
    ELSE LET cell == row.cells[column - 1]
             slot == column - 2
         IN  CollectColumns(row, column + 1, ncols,
               IF cell = "Meh"
               THEN [d EXCEPT !.av = DictAppend(@, row.email, slot)]
               ELSE IF cell = "Preferred"
               THEN [av |-> DictAppend(d.av, row.email, slot),
                     pr |-> DictAppend(d.pr, row.email, slot)]
               ELSE d)

RECURSIVE CollectRows_EveryRow(_, _, _, _)
\* variant: every row gets an entry, marked or not
CollectRows_EveryRow(rs, i, ncols, d) ==
    IF i > Len(rs) THEN d
    ELSE CollectRows_EveryRow(rs, i + 1, ncols,
             CollectColumns(rs[i], 2, ncols,
                 [d EXCEPT !.av = DictSet(@, rs[i].email, DictGet(@, rs[i].email))]))

RECURSIVE CollectRows(_, _, _, _)
CollectRows(rs, i, ncols, d) ==
    IF i > Len(rs) THEN d
    ELSE CollectRows(rs, i + 1, ncols, CollectColumns(rs[i], 2, ncols, d))

RECURSIVE AddDummy(_, _, _)
AddDummy(av, column, ncols) ==
    IF column >= ncols THEN av
    ELSE AddDummy(DictAppend(av, DUMMY_EMAIL, column - 2), column + 1, ncols)

CollectAvailability(rs, h, should_add_dummy_entries) ==
    LET d == CollectRows(rs, 1, Len(h), [av |-> EmptyDict, pr |-> EmptyDict])
    IN  [av |-> IF should_add_dummy_entries THEN AddDummy(d.av, 2, Len(h)) ELSE d.av,
         pr |-> d.pr]

-----------------------------------------------------------------------------
(* calculate_slot_scores *)

\* the list a dict holds for a key, as the set of its elements
Listed(d, email) == Range(DictGet(d, email))

SlotScore(pr, av, email, slot) ==
    IF slot \in Listed(pr, email) THEN PREFERRED_WEIGHT
    ELSE IF slot \in Listed(av, email) THEN AVAILABLE_WEIGHT
    ELSE UNAVAILABLE_SCORE

CalculateSlotScores(nvars, pr, av) ==
    [email \in Range(av.keys) |-> [i \in 1..nvars |-> SlotScore(pr, av, email, i - 1)]]

-----------------------------------------------------------------------------
(* add_constraints.  A coverage constraint is [slot, rhs]: the variables of  *)
(* that slot over all e-mails sum to rhs.  A load constraint is the          *)
(* right-hand side of sum(slots[email]) == rhs.  An at-most-one constraint   *)
(* is the sequence of the variable indices whose sum is <= 1.                *)

WeekendCoverage(w) == [i \in 1..w |-> [slot |-> i - 1, rhs |-> 1]]

\* variant: one engineer per holiday slot
HolidayCoverage_Single(w, h) == [i \in 1..h |-> [slot |-> w + i - 1, rhs |-> 1]]

HolidayCoverage(w, h) == [i \in 1..h |-> [slot |-> w + i - 1, rhs |-> 2]]

SpecialCoverage(w, h, s) == [i \in 1..s |-> [slot |-> w + h + i - 1, rhs |-> 2]]

CoverageConstraints(w, h, s) ==
    WeekendCoverage(w) \o HolidayCoverage(w, h) \o SpecialCoverage(w, h, s)

\* variant: the filler is loaded like an engineer
LoadRhs_NoDummy(email, max_shifts, max_dummy_shifts) == max_shifts

LoadRhs(email, max_shifts, max_dummy_shifts) ==
    IF email # DUMMY_EMAIL THEN max_shifts ELSE max_dummy_shifts

WeekendWindow(slot, w) ==
    <<slot, slot + 1, slot + 2, slot + 3,
      slot + w \div 2, slot + w \div 2 + 1, slot + w \div 2 + 2, slot + w \div 2 + 3>>

WeekendGuard(slot, w) == slot + w \div 2 + 3 < w

WeekendSpacing(w) ==
    LET starts == PyRange(0, w \div 2, 2)
    IN  [i \in {j \in DOMAIN starts : WeekendGuard(starts[j], w)} |-> WeekendWindow(starts[i], w)]

HolidayWindow(slot, h) == <<slot, slot + 1, slot + h, slot + h + 1>>

HolidayPairing(w, h) ==
    LET starts == PyRange(w, w + h, 2)
    IN  [i \in DOMAIN starts |-> HolidayWindow(starts[i], h)]

SpecialPairing(w, h, s) ==
    [i \in 1..s |-> <<w + h + i - 1, w + h + i - 1 + s>>]

\* the windows of one e-mail, as a set (the filler has none); WeekendSpacing
\* is a function over the start positions that pass the guard
AtMostOne(email, w, h, s) ==
    IF email = DUMMY_EMAIL THEN {}
    ELSE Range(WeekendSpacing(w)) \cup Range(HolidayPairing(w, h))
           \cup Range(SpecialPairing(w, h, s))

\* slots[email][i] with i past the end of the list raises IndexError
IndexError(emails, nvars, w, h, s) ==
    \E email \in emails : \E g \in AtMostOne(email, w, h, s) :
        \E i \in DOMAIN g : g[i] >= nvars

-----------------------------------------------------------------------------
(* setup_model *)

NoModel == [emails |-> <<>>, nvars |-> 0, scores |-> <<>>, coverage |-> <<>>,
            load |-> <<>>, atmost |-> <<>>]

SetupModel(nvars, pr, av, max_shifts, c, max_dummy_shifts) ==
    [emails   |-> av.keys,
     nvars    |-> nvars,
     scores   |-> CalculateSlotScores(nvars, pr, av),
     coverage |-> CoverageConstraints(c.weekend_count, c.holiday_count,
                                      c.special_holiday_count),
     load     |-> [email \in Range(av.keys) |->
                      LoadRhs(email, max_shifts, max_dummy_shifts)],
     atmost   |-> [email \in Range(av.keys) |->
                      AtMostOne(email, c.weekend_count, c.holiday_count,
                                c.special_holiday_count)]]

-----------------------------------------------------------------------------
(* The solver (cp_model.CpSolver.Solve): the assignments of the Boolean      *)
(* variables that satisfy every constraint of the model.  An assignment is   *)
(* given per e-mail as the set of indices of its true variables.             *)

\* value of a sum of variables listed by index (a repeated index counts twice)
WindowSum(g, row) == Cardinality({i \in DOMAIN g : g[i] \in row})

\* number of e-mails whose variable for `slot` is true
SlotSum(sol, slot) == Cardinality({email \in DOMAIN sol : slot \in sol[email]})

\* sol: e-mail -> set of true variable indices, satisfies every constraint
Satisfies(m, sol) ==
    /\ \A i \in DOMAIN m.coverage : SlotSum(sol, m.coverage[i].slot) = m.coverage[i].rhs
    /\ \A email \in DOMAIN sol :
          /\ Cardinality(sol[email]) = m.load[email]
          /\ \A g \in m.atmost[email] : WindowSum(g, sol[email]) <= 1

\* The search fixes the variables slot by slot.  q[k] is the set of e-mails
\* whose variable of slot k - 1 is true; a branch is cut as soon as a sum that
\* can only grow exceeds its right-hand side.
RowIn(q, email) == {k - 1 : k \in {j \in DOMAIN q : email \in q[j]}}

Choices(m, slot) ==
    LET cover == {i \in DOMAIN m.coverage : m.coverage[i].slot = slot}
    IN  {E \in SUBSET Range(m.emails) :
            \A i \in cover : Cardinality(E) = m.coverage[i].rhs}

Viable(m, q) ==
    \A email \in q[Len(q)] :
        /\ Cardinality(RowIn(q, email)) <= m.load[email]
        /\ \A g \in m.atmost[email] : WindowSum(g, RowIn(q, email)) <= 1

RECURSIVE Search(_, _)
Search(m, k) ==
    IF k = 0 THEN {<<>>}
    ELSE {q \in {Append(p, E) : p \in Search(m, k - 1), E \in Choices(m, k - 1)} :
            Viable(m, q)}

Feasible(m) ==
    {sol \in {[email \in Range(m.emails) |-> RowIn(q, email)] : q \in Search(m, m.nvars)} :
        Satisfies(m, sol)}

RECURSIVE SumOver(_, _)
SumOver(S, f) ==
    IF S = {} THEN 0
    ELSE LET x == CHOOSE y \in S : TRUE IN f[x] + SumOver(S \ {x}, f)

\* sum(slot_scores[email][slot] * slots[email][slot] ...)
TotalScore(m, sol) ==
    SumOver(DOMAIN sol,
            [email \in DOMAIN sol |->
                SumOver(sol[email], [slot \in sol[email] |-> m.scores[email][slot + 1]])])

\* the assignments of F whose objective value no assignment of F exceeds
Optimal(m, F) ==
    LET score == [sol \in F |-> TotalScore(m, sol)]
        best  == CHOOSE v \in {score[sol] : sol \in F} : \A sol \in F : score[sol] <= v
    IN  {sol \in F : score[sol] = best}

-----------------------------------------------------------------------------
(* Decoding (module level) and print_shift_assignments *)

\* f'{name_parts[0]}.{name_parts[-1][0]}'
Truncate(email) == [first |-> email[1], initial |-> email[Len(email)][1]]

\* [(slot, 'P' if slot in preferences.get(email, []) else 'A')
\*      for slot in slots_list if solver.Value(slots[email][slot])]
RECURSIVE AssignedSlots(_, _, _)
AssignedSlots(slots_list, row, preferred) ==
    IF slots_list = <<>> THEN <<>>
    ELSE LET slot == Head(slots_list)
             rest == AssignedSlots(Tail(slots_list), row, preferred)
         IN  IF slot \in row
             THEN <<[slot |-> slot, choice |-> IF slot \in preferred THEN "P" ELSE "A"]>> \o rest
             ELSE rest

RECURSIVE DecodeLoop(_, _, _, _, _)
DecodeLoop(av, pr, sol, k, d) ==
    IF k > Len(av.keys) THEN d
    ELSE LET email == av.keys[k]
         IN  DecodeLoop(av, pr, sol, k + 1,
                 DictSet(d, Truncate(email),
                         AssignedSlots(av.val[email], sol[email], Listed(pr, email))))

RECURSIVE TransformEntries(_, _, _)
TransformEntries(engineer, entries, d) ==
    IF entries = <<>> THEN d
    ELSE TransformEntries(engineer, Tail(entries),
             DictAppend(d, Head(entries).slot,
                        [engineer |-> engineer, choice |-> Head(entries).choice]))

RECURSIVE TransformLoop(_, _, _)
TransformLoop(assigned, k, d) ==
    IF k > Len(assigned.keys) THEN d
    ELSE TransformLoop(assigned, k + 1,
             TransformEntries(assigned.keys[k], assigned.val[assigned.keys[k]], d))

-----------------------------------------------------------------------------
(* The run *)

Init ==
    /\ header \in Headers
    /\ rows \in RowsFor(header)
    /\ pc = "start"
    /\ counts = CountInit
    /\ all_shifts = 0
    /\ max_shifts_per_engineer = 0
    /\ empty_shift_count = 0
    /\ availables = EmptyDict
    /\ preferences = EmptyDict
    /\ model = NoModel
    /\ status = "NONE"
    /\ solution = <<>>
    /\ objective = 0
    /\ truncated_emails_assigned_slots = EmptyDict
    /\ transformed_data = EmptyDict
    /\ exit_code = 0 - 1
    /\ output = "none"
    /\ error = "none"

\* except Exception as e: print(f"An error occurred ...: {e}"); exit(1)
Abort(exception) ==
    /\ pc' = "done"
    /\ exit_code' = 1
    /\ output' = "An error occurred"
    /\ error' = exception

CountShiftTypes ==
    /\ pc = "start"
    /\ LET c == CountLoop(header, 0, CountInit)
       IN  \/ /\ OrderingError(c)
              /\ Abort("ValueError")
              /\ UNCHANGED counts
           \/ /\ ~OrderingError(c)
              /\ counts' = c
              /\ pc' = "counted"
              /\ UNCHANGED <<exit_code, output, error>>
    /\ UNCHANGED <<header, rows, all_shifts, max_shifts_per_engineer, empty_shift_count,
                   availables, preferences, model, status, solution, objective,
                   truncated_emails_assigned_slots, transformed_data>>

AllShifts(c) == c.weekend_count + c.holiday_count * 2 + c.special_holiday_count * 2

Plan ==
    /\ pc = "counted"
    /\ all_shifts' = AllShifts(counts)
    /\ \/ /\ Len(rows) = 0
          /\ Abort("ZeroDivisionError")
          /\ UNCHANGED <<max_shifts_per_engineer, empty_shift_count>>
       \/ /\ Len(rows) > 0
          /\ max_shifts_per_engineer' = AllShifts(counts) \div Len(rows)
          /\ empty_shift_count' = AllShifts(counts) % Len(rows)
          /\ pc' = "planned"
          /\ UNCHANGED <<exit_code, output, error>>
    /\ UNCHANGED <<header, rows, counts, availables, preferences, model, status,
                   solution, objective, truncated_emails_assigned_slots,
                   transformed_data>>

Collect ==
    /\ pc = "planned"
    /\ LET d == CollectAvailability(rows, header, empty_shift_count # 0)
       IN  /\ availables' = d.av
           /\ preferences' = d.pr
    /\ pc' = "collected"
    /\ UNCHANGED <<header, rows, counts, all_shifts, max_shifts_per_engineer,
                   empty_shift_count, model, status, solution, objective,
                   truncated_emails_assigned_slots, transformed_data, exit_code,
                   output, error>>

Setup ==
    /\ pc = "collected"
    /\ \/ /\ IndexError(Range(availables.keys), all_shifts, counts.weekend_count,
                        counts.holiday_count, counts.special_holiday_count)
          /\ Abort("IndexError")
          /\ UNCHANGED model
       \/ /\ ~IndexError(Range(availables.keys), all_shifts, counts.weekend_count,
                         counts.holiday_count, counts.special_holiday_count)
          /\ model' = SetupModel(all_shifts, preferences, availables,
                                 max_shifts_per_engineer, counts, empty_shift_count)
          /\ pc' = "built"
          /\ UNCHANGED <<exit_code, output, error>>
    /\ UNCHANGED <<header, rows, counts, all_shifts, max_shifts_per_engineer,
                   empty_shift_count, availables, preferences, status, solution,
                   objective, truncated_emails_assigned_slots, transformed_data>>

Solve ==
    /\ pc = "built"
    /\ LET F == Feasible(model)
       IN  \/ /\ F = {}
              /\ status' = "INFEASIBLE"
              /\ UNCHANGED <<solution, objective>>
           \/ /\ \E sol \in Optimal(model, F) :
                    /\ solution' = sol
                    /\ objective' = TotalScore(model, sol)
              /\ status' = "OPTIMAL"
           \/ /\ \E sol \in F :
                    /\ solution' = sol
                    /\ objective' = TotalScore(model, sol)
              /\ status' = "FEASIBLE"
    /\ pc' = "solved"
    /\ UNCHANGED <<header, rows, counts, all_shifts, max_shifts_per_engineer,
                   empty_shift_count, availables, preferences, model,
                   truncated_emails_assigned_slots, transformed_data, exit_code,
                   output, error>>

Accepted == status \in {"OPTIMAL", "FEASIBLE"}

Decode ==
    /\ pc = "solved"
    /\ Accepted
    /\ truncated_emails_assigned_slots' =
           DecodeLoop(availables, preferences, solution, 1, EmptyDict)
    /\ pc' = "decoded"
    /\ UNCHANGED <<header, rows, counts, all_shifts, max_shifts_per_engineer,
                   empty_shift_count, availables, preferences, model, status,
                   solution, objective, transformed_data, exit_code, output, error>>

PrintShiftAssignments ==
    /\ pc = "decoded"
    /\ transformed_data' = TransformLoop(truncated_emails_assigned_slots, 1, EmptyDict)
    /\ pc' = "done"
    /\ exit_code' = 0
    /\ output' = "assignments"
    /\ UNCHANGED <<error, header, rows, counts, all_shifts, max_shifts_per_engineer,
                   empty_shift_count, availables, preferences, model, status,
                   solution, objective, truncated_emails_assigned_slots>>

NoSolution ==
    /\ pc = "solved"
    /\ ~Accepted
    /\ pc' = "done"
    /\ exit_code' = 0
    /\ output' = "No solution found"
    /\ UNCHANGED <<error, header, rows, counts, all_shifts, max_shifts_per_engineer,
                   empty_shift_count, availables, preferences, model, status,
                   solution, objective, truncated_emails_assigned_slots,
                   transformed_data>>

Next ==
    \/ CountShiftTypes
    \/ Plan
    \/ Collect
    \/ Setup
    \/ Solve
    \/ Decode
    \/ PrintShiftAssignments
    \/ NoSolution

Spec == Init /\ [][Next]_vars

-----------------------------------------------------------------------------
(* The slot catalog as the specification describes it, read off the header   *)
(* alone (columns 2.. are the slot columns).                                 *)

KindOf(column_name) ==
    IF "Weekend" \in column_name THEN "Weekend"
    ELSE IF "Special" \in column_name THEN "Special"
    ELSE "Holiday"

SlotColumns == 0..(Len(header) - 3)

KindAt(slot) == KindOf(header[slot + 3])

ColumnsOf(kind) == {slot \in SlotColumns : KindAt(slot) = kind}

RequiredOccupancy(slot) == IF KindAt(slot) = "Weekend" THEN 1 ELSE 2

TotalOccupancy ==
    Cardinality(ColumnsOf("Weekend")) + 2 * Cardinality(ColumnsOf("Holiday"))
        + 2 * Cardinality(ColumnsOf("Special"))

\* the ordering the specification requires of the slot columns
KindRank(kind) == CASE kind = "Weekend" -> 0 [] kind = "Holiday" -> 1 [] kind = "Special" -> 2

Misordered ==
    \E i, j \in SlotColumns : i < j /\ KindRank(KindAt(i)) > KindRank(KindAt(j))

\* slots a data row marks 'Preferred' or 'Meh' / 'Preferred'
Marked(row) == {slot \in SlotColumns : row.cells[slot + 1] \in {"Preferred", "Meh"}}
MarkedPreferred(row) == {slot \in SlotColumns : row.cells[slot + 1] = "Preferred"}

RowEmails == {rows[i].email : i \in DOMAIN rows}
RowOf(email) == rows[CHOOSE i \in DOMAIN rows : rows[i].email = email]

Planned == pc \in {"planned", "collected", "built", "solved", "decoded"}
              \/ (pc = "done" /\ error \notin {"ValueError", "ZeroDivisionError"})
Built == pc \in {"built", "solved", "decoded"} \/ (pc = "done" /\ error = "none")

\* true variables of an e-mail that are slot columns of the catalog
AssignedColumns(email) ==
    IF email \in DOMAIN solution THEN solution[email] \cap SlotColumns ELSE {}

-----------------------------------------------------------------------------
(* Claims *)

\* C1: in every accepted solution a non-filler participant's variable for a
\* slot is true only if the slot is in the participant's availability set,
\* also when the participant has fewer available slots than the target.
C1_OnlyAvailable ==
    Accepted =>
        \A email \in DOMAIN solution \ {DUMMY_EMAIL} :
            solution[email] \subseteq Marked(RowOf(email))

\* C2: in every accepted solution the number of participants (filler
\* included) assigned to a slot column equals its required occupancy: 1 for a
\* Weekend slot, 2 for a Holiday slot, 2 for a Special slot.
C2_Coverage ==
    Accepted => \A slot \in SlotColumns : SlotSum(solution, slot) = RequiredOccupancy(slot)

C2_Witness ==
    /\ pc = "done"
    /\ Accepted
    /\ ColumnsOf("Weekend") # {}
    /\ ColumnsOf("Special") # {}
    /\ DUMMY_EMAIL \in DOMAIN solution

\* C3: target = floor(total_occupancy / participant_count), remainder =
\* total_occupancy mod participant_count, a filler exists iff remainder > 0,
\* and in every accepted solution every non-filler participant holds exactly
\* target slot columns and the filler exactly remainder slot columns.
C3_Load ==
    /\ Planned =>
          /\ max_shifts_per_engineer = TotalOccupancy \div Len(rows)
          /\ empty_shift_count = TotalOccupancy % Len(rows)
    /\ pc \in {"collected", "built", "solved", "decoded"} =>
          (HasKey(availables, DUMMY_EMAIL) <=> empty_shift_count > 0)
    /\ Accepted =>
          /\ \A email \in RowEmails :
                Cardinality(AssignedColumns(email)) = max_shifts_per_engineer
          /\ (DUMMY_EMAIL \in DOMAIN solution) <=> empty_shift_count > 0
          /\ Cardinality(AssignedColumns(DUMMY_EMAIL)) = empty_shift_count

\* occupancy 7 with 3 participants: target 2 each and the filler 1
C3_Witness ==
    /\ pc = "done"
    /\ Accepted
    /\ TotalOccupancy = 7
    /\ Len(rows) = 3
    /\ max_shifts_per_engineer = 2
    /\ Cardinality(AssignedColumns(DUMMY_EMAIL)) = 1

\* C4: in every accepted solution, for every number W of Weekend slots, no
\* non-filler participant holds two slots of the same weekend (s, s + 1,
\* s + W/2, s + W/2 + 1 for an even s of the first half) nor two slots of two
\* linked weekends (s..s + 3 and s + W/2..s + W/2 + 3).
C4_WeekendSpacing ==
    Accepted =>
        LET w == Cardinality(ColumnsOf("Weekend"))
            weekend == 0..(w - 1)
        IN  \A email \in DOMAIN solution \ {DUMMY_EMAIL} :
              \A s \in Range(PyRange(0, w \div 2, 2)) :
                /\ Cardinality(solution[email] \cap weekend
                      \cap {s, s + 1, s + w \div 2, s + w \div 2 + 1}) <= 1
                /\ Cardinality(solution[email] \cap weekend
                      \cap (s..(s + 3) \cup (s + w \div 2)..(s + w \div 2 + 3))) <= 1

\* C5: in every accepted solution, for every Holiday column count H, no
\* non-filler participant holds the early and the late half (indices i and
\* i + H/2 of the Holiday block) of one holiday day; with 2 Holiday slots and
\* 4 participants available for both, each slot gets 2 participants and no
\* participant is in both.
C5_HolidayPairing ==
    Accepted =>
        LET w == Cardinality(ColumnsOf("Weekend"))
            h == Cardinality(ColumnsOf("Holiday"))
        IN  \A email \in DOMAIN solution \ {DUMMY_EMAIL} :
              \A i \in w..(w + h \div 2 - 1) :
                ~(i \in solution[email] /\ i + h \div 2 \in solution[email])

\* C6: a header whose slot columns are not ordered Weekend, then Holiday,
\* then Special is rejected with the structural-ordering error and exit code
\* 1 before a model is built; an ordered header is never rejected by it.
C6_Ordering ==
    pc # "start" =>
        /\ Misordered => (pc = "done" /\ error = "ValueError" /\ exit_code = 1
                            /\ model = NoModel)
        /\ ~Misordered => error # "ValueError"

\* C7: whenever a non-filler participant's availability set has fewer slots
\* than the target, the built model is INFEASIBLE and the run ends with 'No
\* solution found', exit code 0, no exception and no assignment.
C7_TooFewAvailable ==
    (Built /\ \E i \in DOMAIN rows :
                  Cardinality(Marked(rows[i])) < max_shifts_per_engineer) =>
        /\ pc \in {"solved", "decoded"} => status = "INFEASIBLE"
        /\ pc = "done" => (output = "No solution found" /\ exit_code = 0)

\* C8: the objective value is PREFERRED_WEIGHT per real-participant
\* assignment to a preferred slot plus AVAILABLE_WEIGHT per real-participant
\* assignment to an available, not preferred slot, the filler contributing
\* zero; an OPTIMAL result attains the maximum over the assignments that
\* satisfy the hard constraints; Scenario A yields A -> {0,2}, B -> {1,3}
\* with value 2 * PREFERRED_WEIGHT + 2 * AVAILABLE_WEIGHT.
C8_Objective ==
    /\ Accepted =>
          objective =
            SumOver(RowEmails \cap DOMAIN solution,
                    [email \in RowEmails \cap DOMAIN solution |->
                        PREFERRED_WEIGHT *
                            Cardinality(solution[email] \cap MarkedPreferred(RowOf(email)))
                      + AVAILABLE_WEIGHT *
                            Cardinality(solution[email]
                                \cap (Marked(RowOf(email)) \ MarkedPreferred(RowOf(email))))])
    /\ (pc = "solved" /\ status = "OPTIMAL") =>
          \A other \in Feasible(model) : TotalScore(model, other) <= objective
    /\ (status = "OPTIMAL" /\ Len(header) = 6 /\ ColumnsOf("Weekend") = 0..3 /\ Len(rows) = 2
          /\ Marked(rows[1]) = {0, 2} /\ MarkedPreferred(rows[1]) = {0, 2}
          /\ Marked(rows[2]) = {1, 3} /\ MarkedPreferred(rows[2]) = {}) =>
          /\ solution[rows[1].email] = {0, 2}
          /\ solution[rows[2].email] = {1, 3}
          /\ objective = 2 * PREFERRED_WEIGHT + 2 * AVAILABLE_WEIGHT

\* C9: the decoded slot -> participants mapping holds exactly the
\* (participant, slot) pairs whose variable is true, each tagged P iff the
\* slot is in the participant's preferred set and A otherwise, so every
\* slot's list has the length of its required occupancy.
C9_Decoding ==
    (pc = "done" /\ output = "assignments") =>
        /\ \A slot \in 0..(all_shifts - 1) :
              Len(DictGet(transformed_data, slot)) = SlotSum(solution, slot)
        /\ \A email \in DOMAIN solution : \A slot \in solution[email] :
              \E k \in DOMAIN DictGet(transformed_data, slot) :
                 DictGet(transformed_data, slot)[k] =
                    [engineer |-> Truncate(email),
                     choice |-> IF slot \in Listed(preferences, email) THEN "P" ELSE "A"]
        /\ \A slot \in SlotColumns :
              Len(DictGet(transformed_data, slot)) = RequiredOccupancy(slot)

-----------------------------------------------------------------------------
(* C10: rows that mark nothing *)

Unmarked == {i \in DOMAIN rows : Marked(rows[i]) = {}}

\* C10 as stated: an unmarked row is counted by the planner but gets no
\* variables and no load constraint; when such a row exists and target >= 1
\* no assignment satisfies the constraints of the model and the run ends
\* with 'No solution found'; when target = 0 the model stays feasible, the
\* filler covering everything.
C10_Original ==
    (Built /\ Unmarked # {}) =>
        /\ max_shifts_per_engineer = TotalOccupancy \div Len(rows)
        /\ \A i \in Unmarked : rows[i].email \notin Range(model.emails)
        /\ max_shifts_per_engineer >= 1 =>
              /\ ~Accepted
              /\ pc = "done" => output = "No solution found"
        /\ (pc = "solved" /\ max_shifts_per_engineer = 0) =>
              /\ Accepted
              /\ \A slot \in SlotColumns : slot \in AssignedColumns(DUMMY_EMAIL)

\* model construction indexes past the variable list: an odd Holiday count,
\* no Special column and a row that marks a slot
ConstructionRaises ==
    /\ Cardinality(ColumnsOf("Holiday")) % 2 = 1
    /\ ColumnsOf("Special") = {}
    /\ \E i \in DOMAIN rows : Marked(rows[i]) # {}

\* C10 amended: an unmarked row is counted by the planner but gets no
\* variables and no load constraint; when such a row exists and target >= 1
\* no solution is ever accepted and the run ends with 'No solution found',
\* or with the processing error when model construction raises; when
\* target = 0 the model is feasible, the filler covering every slot, exactly
\* when the catalog has no Holiday and no Special slot.
C10_UnmarkedRows ==
    (Planned /\ Unmarked # {}) =>
        /\ max_shifts_per_engineer = TotalOccupancy \div Len(rows)
        /\ Built => \A i \in Unmarked : rows[i].email \notin Range(model.emails)
        /\ max_shifts_per_engineer >= 1 =>
              /\ ~Accepted
              /\ pc = "done" =>
                    \/ output = "No solution found"
                    \/ (error = "IndexError" /\ exit_code = 1 /\ ConstructionRaises)
              /\ (pc = "done" /\ ConstructionRaises) => error = "IndexError"
        /\ (pc = "solved" /\ max_shifts_per_engineer = 0) =>
              /\ Accepted <=> (ColumnsOf("Holiday") \cup ColumnsOf("Special") = {})
              /\ Accepted => \A slot \in SlotColumns : slot \in AssignedColumns(DUMMY_EMAIL)

\* an unmarked row with target >= 1 ended in 'No solution found'
C10_Witness ==
    /\ pc = "done"
    /\ Unmarked # {}
    /\ max_shifts_per_engineer >= 1
    /\ Unmarked # DOMAIN rows
    /\ status = "INFEASIBLE"
    /\ output = "No solution found"

====
